---- MODULE Spec2Model ----
(***************************************************************************)
(* Set Builder UI: the in-memory set, its two rendered projections (chip   *)
(* list and set literal) and the cancellable suggestion request of the     *)
(* browser script.  Strings are sequences of one-character strings, so     *)
(* that trimming, whitespace collapsing, splitting and the literal's       *)
(* formatting are computed character by character as the script does.      *)
(***************************************************************************)
EXTENDS Integers, Sequences, FiniteSets, TLC

\* Number of suggestion requests issued in one run of the page.
MaxReq == 3

\* Number of suggestion requests issued in a run that is checked for progress.
MaxFairReq == 2

\* Number of suggestion requests issued in a run that exercises the set handlers.
MaxSetReq == 1

(***************************************************************************)
(* Characters and strings                                                  *)
(***************************************************************************)
\* The characters matched by \s in the script's regular expressions.
Whitespace == {" ", "\t", "\n"}

\* String.prototype.trim: strip leading whitespace ...
RECURSIVE trimStart(_)
trimStart(s) ==
  IF s = <<>> THEN <<>>
  ELSE IF Head(s) \in Whitespace THEN trimStart(Tail(s)) ELSE s

\* ... and trailing whitespace.
RECURSIVE trimEnd(_)
trimEnd(s) ==
  IF s = <<>> THEN <<>>
  ELSE IF s[Len(s)] \in Whitespace THEN trimEnd(SubSeq(s, 1, Len(s) - 1)) ELSE s

trim(s) == trimEnd(trimStart(s))

\* A plausible slip: /\s\s/g, which replaces whitespace two characters at a time.
RECURSIVE collapseWhitespace_PairsOnly(_)
collapseWhitespace_PairsOnly(s) ==
  IF s = <<>> THEN <<>>
  ELSE IF Len(s) >= 2 /\ s[1] \in Whitespace /\ s[2] \in Whitespace
       THEN <<" ">> \o collapseWhitespace_PairsOnly(Tail(Tail(s)))
       ELSE <<Head(s)>> \o collapseWhitespace_PairsOnly(Tail(s))

\* replace(/\s+/g, " "): every maximal whitespace run becomes one space.
RECURSIVE collapseWhitespace(_)
collapseWhitespace(s) ==
  IF s = <<>> THEN <<>>
  ELSE IF Head(s) \in Whitespace
       THEN <<" ">> \o collapseWhitespace(trimStart(s))
       ELSE <<Head(s)>> \o collapseWhitespace(Tail(s))

sanitizeValue(value) == collapseWhitespace(trim(value))

\* split(/[\n,]/): the segments between delimiters, empty ones included.
RECURSIVE splitFrom(_, _)
splitFrom(s, current) ==
  IF s = <<>> THEN <<current>>
  ELSE IF Head(s) \in {"\n", ","}
       THEN <<current>> \o splitFrom(Tail(s), <<>>)
       ELSE splitFrom(Tail(s), Append(current, Head(s)))

split(raw) == splitFrom(raw, <<>>)

\* Primary collation weight of a character (space sorts before letters).
CollatorWeight(c) ==
  CASE c = " " -> 0
    [] c = "a" -> 1
    [] c = "b" -> 2
    [] OTHER -> 3

\* Intl.Collator().compare on the model's alphabet: negative, zero, positive.
RECURSIVE CollatorCompare(_, _)
CollatorCompare(x, y) ==
  IF x = <<>> /\ y = <<>> THEN 0
  ELSE IF x = <<>> THEN -1
  ELSE IF y = <<>> THEN 1
  ELSE IF CollatorWeight(Head(x)) # CollatorWeight(Head(y))
       THEN CollatorWeight(Head(x)) - CollatorWeight(Head(y))
       ELSE CollatorCompare(Tail(x), Tail(y))

\* Insertion of v into an already sorted sequence.
RECURSIVE sortedInsert(_, _)
sortedInsert(sorted, v) ==
  IF sorted = <<>> THEN <<v>>
  ELSE IF CollatorCompare(v, Head(sorted)) < 0
       THEN <<v>> \o sorted
       ELSE <<Head(sorted)>> \o sortedInsert(Tail(sorted), v)

\* Array.from(setItems).sort(Intl.Collator().compare)
RECURSIVE sortByCollator(_)
sortByCollator(items) ==
  IF items = <<>> THEN <<>>
  ELSE sortedInsert(sortByCollator(SubSeq(items, 1, Len(items) - 1)),
                    items[Len(items)])

\* .map(value => `"${value}"`).join(", ")
RECURSIVE quoteAndJoin(_)
quoteAndJoin(items) ==
  IF items = <<>> THEN <<>>
  ELSE IF Len(items) = 1 THEN <<"\"">> \o Head(items) \o <<"\"">>
  ELSE <<"\"">> \o Head(items) \o <<"\"", ",", " ">> \o quoteAndJoin(Tail(items))

\* `{ ${...} }`
setLiteral(items) == <<"{", " ">> \o quoteAndJoin(items) \o <<" ", "}">>

(***************************************************************************)
(* The Set object: a sequence of distinct values in insertion order        *)
(***************************************************************************)
Range(seq) == {seq[i] : i \in 1..Len(seq)}

\* Set.prototype.add
setAdd(items, v) == IF v \in Range(items) THEN items ELSE Append(items, v)

\* Set.prototype.delete
RECURSIVE setDelete(_, _)
setDelete(items, v) ==
  IF items = <<>> THEN <<>>
  ELSE IF Head(items) = v THEN Tail(items)
  ELSE <<Head(items)>> \o setDelete(Tail(items), v)

(***************************************************************************)
(* The page: setItems with the three rendered outputs                      *)
(***************************************************************************)
\* A plausible slip: chips are appended without emptying the list first.
render_NoReset(page) ==
  IF page.setItems = <<>>
  THEN [page EXCEPT !.chipList = <<>>, !.emptyStateHidden = FALSE, !.output = <<>>]
  ELSE [page EXCEPT !.chipList = page.chipList \o sortByCollator(page.setItems),
                    !.emptyStateHidden = TRUE,
                    !.output = setLiteral(page.setItems)]

render(page) ==
  IF page.setItems = <<>>
  THEN [page EXCEPT !.chipList = <<>>, !.emptyStateHidden = FALSE, !.output = <<>>]
  ELSE [page EXCEPT !.chipList = sortByCollator(page.setItems),
                    !.emptyStateHidden = TRUE,
                    !.output = setLiteral(page.setItems)]

\* A plausible slip: the raw value is stored instead of the sanitized one.
addValue_StoreRaw(page, value) ==
  LET sanitized == sanitizeValue(value) IN
  IF sanitized = <<>> THEN [page |-> page, added |-> FALSE, rendered |-> FALSE]
  ELSE LET after == [page EXCEPT !.setItems = setAdd(page.setItems, value)]
           added == Len(after.setItems) # Len(page.setItems)
       IN IF added THEN [page |-> render(after), added |-> TRUE, rendered |-> TRUE]
          ELSE [page |-> after, added |-> FALSE, rendered |-> FALSE]

\* A plausible slip: membership is not consulted, the value is appended.
addValue_NoDedup(page, value) ==
  LET sanitized == sanitizeValue(value) IN
  IF sanitized = <<>> THEN [page |-> page, added |-> FALSE, rendered |-> FALSE]
  ELSE [page |-> render([page EXCEPT !.setItems = Append(page.setItems, sanitized)]),
        added |-> TRUE, rendered |-> TRUE]

\* addValue: the page afterwards, the returned flag, and whether render ran.
addValue(page, value) ==
  LET sanitized == sanitizeValue(value) IN
  IF sanitized = <<>> THEN [page |-> page, added |-> FALSE, rendered |-> FALSE]
  ELSE LET after == [page EXCEPT !.setItems = setAdd(page.setItems, sanitized)]
           added == Len(after.setItems) # Len(page.setItems)
       IN IF added THEN [page |-> render(after), added |-> TRUE, rendered |-> TRUE]
          ELSE [page |-> after, added |-> FALSE, rendered |-> FALSE]

\* The loop of addMany / addItemsFromArray over already selected strings.
RECURSIVE addEach(_, _)
addEach(page, parts) ==
  IF parts = <<>> THEN [page |-> page, addedAny |-> FALSE]
  ELSE LET first == addValue(page, Head(parts))
           rest == addEach(first.page, Tail(parts))
       IN [page |-> rest.page, addedAny |-> first.added \/ rest.addedAny]

RECURSIVE selectSeq(_, _)
selectSeq(seq, keep) ==
  IF seq = <<>> THEN <<>>
  ELSE IF Head(seq) \in keep THEN <<Head(seq)>> \o selectSeq(Tail(seq), keep)
  ELSE selectSeq(Tail(seq), keep)

\* raw.split(/[\n,]/).map(sanitizeValue).filter(Boolean)
bulkParts(raw) ==
  LET segments == split(raw)
      sanitized == [i \in 1..Len(segments) |-> sanitizeValue(segments[i])]
  IN selectSeq(sanitized, Range(sanitized) \ {<<>>})

Announcement(text, value, n) == [text |-> text, value |-> value, n |-> n]

\* A plausible slip: addedAny is overwritten by each part, so only the last counts.
addMany_LastPartOnly(page, raw) ==
  LET parts == bulkParts(raw)
      result == addEach(page, parts)
      lastAdded ==
        IF parts = <<>> THEN FALSE
        ELSE addValue(addEach(page, SubSeq(parts, 1, Len(parts) - 1)).page,
                      parts[Len(parts)]).added
  IN [page |-> result.page,
      announced |-> IF lastAdded THEN <<>>
                    ELSE <<Announcement("No new values were added.", <<>>, 0)>>,
      over |-> IF lastAdded THEN <<>> ELSE <<result.page>>]

\* addMany: the page afterwards and the announcements made.
addMany(page, raw) ==
  LET result == addEach(page, bulkParts(raw)) IN
  [page |-> result.page,
   announced |-> IF result.addedAny THEN <<>>
                 ELSE <<Announcement("No new values were added.", <<>>, 0)>>,
   over |-> IF result.addedAny THEN <<>> ELSE <<result.page>>]

\* A plausible slip: render and announce run whether or not delete succeeded.
removeValue_AlwaysAnnounces(page, value) ==
  LET rendered ==
        render([page EXCEPT !.setItems = setDelete(page.setItems, value)])
  IN [page |-> rendered,
      announced |-> <<Announcement("removed from the set.", value, 0)>>,
      over |-> <<rendered>>, rendered |-> TRUE]

\* A plausible slip: the removal is announced before the outputs are rebuilt.
removeValue_AnnouncesFirst(page, value) ==
  IF value \in Range(page.setItems)
  THEN LET deleted == [page EXCEPT !.setItems = setDelete(page.setItems, value)]
       IN [page |-> render(deleted),
           announced |-> <<Announcement("removed from the set.", value, 0)>>,
           over |-> <<deleted>>, rendered |-> TRUE]
  ELSE [page |-> page, announced |-> <<>>, over |-> <<>>, rendered |-> FALSE]

\* removeValue: the page afterwards, the announcements made, the page each
\* announcement was made over, and whether render ran.
removeValue(page, value) ==
  IF value \in Range(page.setItems)
  THEN LET rendered ==
             render([page EXCEPT !.setItems = setDelete(page.setItems, value)])
       IN [page |-> rendered,
           announced |-> <<Announcement("removed from the set.", value, 0)>>,
           over |-> <<rendered>>, rendered |-> TRUE]
  ELSE [page |-> page, announced |-> <<>>, over |-> <<>>, rendered |-> FALSE]

clearSet(page) ==
  IF page.setItems = <<>>
  THEN [page |-> page,
        announced |-> <<Announcement("Set is already empty.", <<>>, 0)>>,
        over |-> <<page>>]
  ELSE LET rendered == render([page EXCEPT !.setItems = <<>>])
       IN [page |-> rendered,
           announced |-> <<Announcement("All values cleared.", <<>>, 0)>>,
           over |-> <<rendered>>]

(***************************************************************************)
(* JavaScript values carried by a provider payload                         *)
(***************************************************************************)
JsString(chars) == [typeof |-> "string", value |-> chars]
JsNumber == [typeof |-> "number", value |-> <<>>]
JsNull == [typeof |-> "object", value |-> <<>>]
JsArray(elems) == [isArray |-> TRUE, elems |-> elems]
JsNotArray == [isArray |-> FALSE, elems |-> <<>>]

\* Array.from(new Set(items)): first occurrences, in order.
RECURSIVE uniqueOf(_)
uniqueOf(items) ==
  IF items = <<>> THEN <<>>
  ELSE LET front == uniqueOf(SubSeq(items, 1, Len(items) - 1))
           last == items[Len(items)]
       IN IF last \in Range(front) THEN front ELSE Append(front, last)

\* payload.items filtered to strings, trimmed, empties dropped ([] if no array).
usableItems(items) ==
  IF ~items.isArray THEN <<>>
  ELSE LET strings == selectSeq(items.elems,
                                {e \in Range(items.elems) : e.typeof = "string"})
           trimmed == [i \in 1..Len(strings) |-> trim(strings[i].value)]
       IN selectSeq(trimmed, Range(trimmed) \ {<<>>})

\* A plausible slip: the loop returns as soon as one item was added.
addItemsFromArray_StopsAtFirstAdded(page, items) ==
  IF ~items.isArray THEN [page |-> page, addedAny |-> FALSE]
  ELSE LET strings == selectSeq(items.elems,
                                {e \in Range(items.elems) : e.typeof = "string"})
           values == [i \in 1..Len(strings) |-> strings[i].value]
           firstAdded ==
             {i \in 1..Len(values) :
                addEach(page, SubSeq(values, 1, i)).addedAny}
       IN IF firstAdded = {} THEN addEach(page, values)
          ELSE addEach(page, SubSeq(values, 1,
                 CHOOSE i \in firstAdded : \A j \in firstAdded : i <= j))

\* addItemsFromArray: non-arrays are refused, non-strings are skipped.
addItemsFromArray(page, items) ==
  IF ~items.isArray THEN [page |-> page, addedAny |-> FALSE]
  ELSE LET strings == selectSeq(items.elems,
                                {e \in Range(items.elems) : e.typeof = "string"})
       IN addEach(page, [i \in 1..Len(strings) |-> strings[i].value])

(***************************************************************************)
(* Inputs                                                                  *)
(***************************************************************************)
\* Texts typed into the single-value field.
SingleInputs ==
  { <<>>, <<" ">>, <<"a">>, <<" ", "a", " ">>, <<"b">>,
    <<"a", " ", "b">>, <<"a", " ", "\t", "b">> }

\* Texts typed into the bulk field.
BulkInputs ==
  { <<>>,
    <<"a", ",", "a", ",", "b">>,
    <<"a", ",", " ", "b", "\n", "a", " ", " ", "b">>,
    <<" ", ",", "\n">> }

\* Texts typed into the assistant prompt.
AiPrompts == { <<>>, <<" ", "\t">>, <<"a", " ", "b">> }

\* The items field of a parsed 2xx body.
PayloadItems ==
  { JsNotArray,
    JsArray(<<>>),
    JsArray(<<JsString(<<"a">>)>>),
    JsArray(<<JsString(<<"a">>), JsString(<<"a">>)>>),
    JsArray(<<JsString(<<" ", "a", " ">>), JsString(<<"b">>)>>),
    JsArray(<<JsString(<<"a", " ", "b">>), JsString(<<"a", " ", " ", "b">>)>>),
    JsArray(<<JsNumber, JsNull, JsString(<<" ">>)>>),
    JsArray(<<JsString(<<"b">>), JsNumber>>) }

(***************************************************************************)
(* State                                                                   *)
(***************************************************************************)
VARIABLES
  setItems,            \* the Set, in insertion order
  chipList,            \* labels of the chips in #set-items, in order
  emptyStateHidden,    \* emptyState.hidden
  output,              \* output.textContent
  aiRequestController, \* 0 for null, else the request whose controller it is
  requests,            \* one record per submit-handler run that issued a fetch
  microtasks,          \* requests whose awaited promise an abort has rejected
  aiControls,          \* disabled/hidden flags written by setAiLoading
  aiStatus,            \* the status line written by updateAiStatus
  announced,           \* live regions appended by the latest handler run
  announcedOver,       \* the page as it was at each of those announce() calls
  clipboardWrites,     \* texts the latest handler run passed to writeText
  bulkInput,           \* bulkInput.value once the latest handler run is over
  normalizeArg,        \* a string handed to sanitizeValue
  normalizeResults,    \* the results of applying sanitizeValue to it repeatedly
  serverRequest,       \* the POST /api/build-set request the backend handles
  serverResponse       \* the backend's response to it

pageVars == <<setItems, chipList, emptyStateHidden, output>>
aiVars == <<aiRequestController, requests, microtasks, aiControls, aiStatus>>
\* State of the other programs: the normalizer on its own, and the backend.
otherVars == <<normalizeArg, normalizeResults, serverRequest, serverResponse>>
vars == <<setItems, chipList, emptyStateHidden, output, aiRequestController,
          requests, microtasks, aiControls, aiStatus, announced, announcedOver,
          clipboardWrites, bulkInput, normalizeArg, normalizeResults,
          serverRequest, serverResponse>>

Page == [setItems |-> setItems, chipList |-> chipList,
         emptyStateHidden |-> emptyStateHidden, output |-> output]

SetPage(page) ==
  /\ setItems' = page.setItems
  /\ chipList' = page.chipList
  /\ emptyStateHidden' = page.emptyStateHidden
  /\ output' = page.output

setAiLoading(isLoading) ==
  [submitDisabled |-> isLoading, promptDisabled |-> isLoading,
   cancelHidden |-> ~isLoading, cancelDisabled |-> ~isLoading]

updateAiStatus(message, n, state) ==
  [hidden |-> FALSE, state |-> state, message |-> message, n |-> n]

Pending(r) == requests[r].phase \in {"fetch", "json", "errjson"}

\* A request that was issued and has neither settled nor been aborted.
InFlight(r) == Pending(r) /\ ~requests[r].aborted

\* The page as served, after the script's closing render() call.
BrowserInit ==
  /\ setItems = <<>>
  /\ chipList = <<>>
  /\ emptyStateHidden = FALSE
  /\ output = <<>>
  /\ aiRequestController = 0
  /\ requests = <<>>
  /\ microtasks = <<>>
  /\ aiControls = setAiLoading(FALSE)
  /\ aiStatus = [hidden |-> TRUE, state |-> "none", message |-> "", n |-> 0]
  /\ announced = <<>>
  /\ announcedOver = <<>>
  /\ clipboardWrites = <<>>
  /\ bulkInput = <<>>

\* No request has reached the backend.
NoServerRequest == [kind |-> "none"]
NoServerResponse == [status |-> 0]

ServerIdle == serverRequest = NoServerRequest /\ serverResponse = NoServerResponse

NormalizerIdle == normalizeArg = <<>> /\ normalizeResults = <<>>

Init == BrowserInit /\ NormalizerIdle /\ ServerIdle

\* What a handler run that copies nothing and leaves the bulk field alone
\* does to the rest of the state.
NoCopyNoBulk == clipboardWrites' = <<>> /\ UNCHANGED <<bulkInput, otherVars>>

(***************************************************************************)
(* Set handlers (synchronous)                                              *)
(***************************************************************************)
\* singleForm "submit" listener.
singleFormSubmit(value) ==
  /\ microtasks = <<>>
  /\ LET result == addValue(Page, value) IN
       /\ SetPage(result.page)
       /\ announced' =
            IF ~result.added
            THEN <<Announcement("Value is empty or already exists.", <<>>, 0)>>
            ELSE <<Announcement("added to the set.", sanitizeValue(value), 0)>>
       /\ announcedOver' = <<result.page>>
  /\ NoCopyNoBulk
  /\ UNCHANGED aiVars

\* bulkForm "submit" listener.
bulkFormSubmit(raw) ==
  /\ microtasks = <<>>
  /\ LET result == addMany(Page, raw) IN
       /\ SetPage(result.page)
       /\ announced' = result.announced
       /\ announcedOver' = result.over
  /\ bulkInput' = <<>>
  /\ clipboardWrites' = <<>>
  /\ UNCHANGED <<aiVars, otherVars>>

\* "click" listener of the i-th chip's remove button, bound to its value.
chipRemoveClick(i) ==
  /\ microtasks = <<>>
  /\ i \in 1..Len(chipList)
  /\ LET result == removeValue(Page, chipList[i]) IN
       /\ SetPage(result.page)
       /\ announced' = result.announced
       /\ announcedOver' = result.over
  /\ NoCopyNoBulk
  /\ UNCHANGED aiVars

\* clearButton "click" listener.
clearButtonClick ==
  /\ microtasks = <<>>
  /\ LET result == clearSet(Page) IN
       /\ SetPage(result.page)
       /\ announced' = result.announced
       /\ announcedOver' = result.over
  /\ NoCopyNoBulk
  /\ UNCHANGED aiVars

\* A plausible slip: the empty set is not tested, the empty literal is copied.
copyButtonClick_CopiesEmpty(resolves) ==
  /\ microtasks = <<>>
  /\ clipboardWrites' = <<output>>
  /\ announced' =
       IF resolves
       THEN <<Announcement("Set literal copied to clipboard.", <<>>, 0)>>
       ELSE <<Announcement(
                "Copy failed. Your browser may block clipboard access.",
                <<>>, 0)>>
  /\ announcedOver' = <<Page>>
  /\ UNCHANGED <<pageVars, aiVars, bulkInput, otherVars>>

\* copyButton "click" listener together with its continuation: writeText
\* resolves or rejects, and the continuation only announces.
copyButtonClick(resolves) ==
  /\ microtasks = <<>>
  /\ IF setItems = <<>>
     THEN /\ clipboardWrites' = <<>>
          /\ announced' = <<Announcement("Nothing to copy. The set is empty.", <<>>, 0)>>
     ELSE /\ clipboardWrites' = <<output>>
          /\ announced' =
               IF resolves
               THEN <<Announcement("Set literal copied to clipboard.", <<>>, 0)>>
               ELSE <<Announcement(
                        "Copy failed. Your browser may block clipboard access.",
                        <<>>, 0)>>
  /\ announcedOver' = <<Page>>
  /\ UNCHANGED <<pageVars, aiVars, bulkInput, otherVars>>

(***************************************************************************)
(* Suggestion request                                                      *)
(***************************************************************************)
\* AbortController.abort(): a pending, not yet aborted request has its awaited
\* promise rejected; the rejection is delivered as a microtask.
abort(k) ==
  IF Pending(k) /\ ~requests[k].aborted
  THEN [requests |-> [requests EXCEPT ![k].aborted = TRUE],
        microtasks |-> Append(microtasks, k)]
  ELSE [requests |-> requests, microtasks |-> microtasks]

\* aiCancelButton "click" listener.
aiCancelClick ==
  /\ microtasks = <<>>
  /\ LET after == IF aiRequestController # 0 THEN abort(aiRequestController)
                  ELSE [requests |-> requests, microtasks |-> microtasks]
     IN /\ requests' = after.requests
        /\ microtasks' = after.microtasks
  /\ announced' = <<>>
  /\ announcedOver' = <<>>
  /\ NoCopyNoBulk
  /\ UNCHANGED <<pageVars, aiRequestController, aiControls, aiStatus>>

\* A plausible slip: the previous request is aborted before the prompt is tested.
aiFormSubmit_AbortsFirst(prompt) ==
  /\ microtasks = <<>>
  /\ NoCopyNoBulk
  /\ announcedOver' = IF sanitizeValue(prompt) = <<>> THEN <<Page>> ELSE <<>>
  /\ IF sanitizeValue(prompt) = <<>>
     THEN /\ announced' =
               <<Announcement("Describe what you need before asking the assistant.",
                              <<>>, 0)>>
          /\ LET after == IF aiRequestController # 0 THEN abort(aiRequestController)
                          ELSE [requests |-> requests, microtasks |-> microtasks]
             IN /\ requests' = after.requests
                /\ microtasks' = after.microtasks
          /\ UNCHANGED <<pageVars, aiRequestController, aiControls, aiStatus>>
     ELSE /\ Len(requests) < MaxReq
          /\ LET after == IF aiRequestController # 0 THEN abort(aiRequestController)
                          ELSE [requests |-> requests, microtasks |-> microtasks]
             IN /\ requests' = Append(after.requests,
                                      [phase |-> "fetch", aborted |-> FALSE])
                /\ microtasks' = after.microtasks
          /\ aiRequestController' = Len(requests) + 1
          /\ aiControls' = setAiLoading(TRUE)
          /\ aiStatus' = updateAiStatus("Contacting the assistant...", 0, "info")
          /\ announced' = <<>>
          /\ UNCHANGED pageVars

\* aiForm "submit" listener, up to its first await.  The listener does not
\* consult the controls' disabled flags.
aiFormSubmit(prompt) ==
  /\ microtasks = <<>>
  /\ NoCopyNoBulk
  /\ announcedOver' = IF sanitizeValue(prompt) = <<>> THEN <<Page>> ELSE <<>>
  /\ IF sanitizeValue(prompt) = <<>>
     THEN /\ announced' =
               <<Announcement("Describe what you need before asking the assistant.",
                              <<>>, 0)>>
          /\ UNCHANGED <<pageVars, aiVars>>
     ELSE /\ Len(requests) < MaxReq
          /\ LET after == IF aiRequestController # 0 THEN abort(aiRequestController)
                          ELSE [requests |-> requests, microtasks |-> microtasks]
             IN /\ requests' = Append(after.requests,
                                      [phase |-> "fetch", aborted |-> FALSE])
                /\ microtasks' = after.microtasks
          /\ aiRequestController' = Len(requests) + 1
          /\ aiControls' = setAiLoading(TRUE)
          /\ aiStatus' = updateAiStatus("Contacting the assistant...", 0, "info")
          /\ announced' = <<>>
          /\ UNCHANGED pageVars

\* A plausible slip: the finally block forgets to clear the handle.
aiFinally_KeepsHandle ==
  [aiControls |-> setAiLoading(FALSE), aiRequestController |-> aiRequestController]

\* The finally block: what it writes to the controls and to the handle.
aiFinally ==
  [aiControls |-> setAiLoading(FALSE), aiRequestController |-> 0]

\* The handler of request r leaves its try statement: catch (if any), finally.
Leave(r, phase, status, announcements) ==
  /\ requests' = [requests EXCEPT ![r].phase = phase]
  /\ aiStatus' = status
  /\ announced' = announcements
  /\ NoCopyNoBulk
  /\ aiControls' = aiFinally.aiControls
  /\ aiRequestController' = aiFinally.aiRequestController

\* catch, AbortError branch.
CatchAbort(r) ==
  /\ Leave(r, "Cancelled",
           updateAiStatus("Assistant request cancelled.", 0, "info"),
           <<Announcement("Assistant request cancelled.", <<>>, 0)>>)
  /\ announcedOver' = <<Page>>

\* catch, any other error; message is error.message or its replacement.
CatchError(r, message) ==
  /\ Leave(r, "Failed",
           updateAiStatus(message, 0, "error"),
           <<Announcement("Assistant request failed.", <<>>, 0)>>)
  /\ announcedOver' = <<Page>>

\* A plausible slip: the signal does not reach the body read, so the
\* continuation of an aborted request still ingests what the provider sent.
resumeAborted_AppliesResponse ==
  /\ microtasks # <<>>
  /\ LET r == Head(microtasks) IN
       /\ microtasks' = Tail(microtasks)
       /\ IF requests[r].phase = "json"
          THEN LET result == addItemsFromArray(Page, JsArray(<<JsString(<<"a">>)>>))
               IN /\ SetPage(result.page)
                  /\ announcedOver' = <<result.page>>
                  /\ Leave(r, "Succeeded",
                           updateAiStatus("Added N item(s) from the assistant.",
                                          1, "success"),
                           <<Announcement("Assistant added N item(s) to the set.",
                                          <<>>, 1)>>)
          ELSE /\ IF requests[r].phase = "errjson"
                  THEN CatchError(r, "Request failed with status")
                  ELSE CatchAbort(r)
               /\ UNCHANGED pageVars

\* Microtask: the continuation of a handler whose awaited promise was rejected
\* by abort().  While reading a non-2xx body the rejection is swallowed by the
\* inner try/catch and the default message is thrown instead.
resumeAborted ==
  /\ microtasks # <<>>
  /\ LET r == Head(microtasks) IN
       /\ microtasks' = Tail(microtasks)
       /\ IF requests[r].phase = "errjson"
          THEN CatchError(r, "Request failed with status")
          ELSE CatchAbort(r)
  /\ UNCHANGED pageVars

\* fetch() settles for request r: a 2xx response, another status, or a
\* network failure (TypeError "Failed to fetch").
fetchSettles(r, outcome) ==
  /\ microtasks = <<>>
  /\ r \in 1..Len(requests)
  /\ requests[r].phase = "fetch"
  /\ ~requests[r].aborted
  /\ CASE outcome = "ok" ->
            /\ requests' = [requests EXCEPT ![r].phase = "json"]
            /\ announced' = <<>>
            /\ announcedOver' = <<>>
            /\ NoCopyNoBulk
            /\ UNCHANGED <<aiRequestController, aiControls, aiStatus>>
       [] outcome = "notOk" ->
            /\ requests' = [requests EXCEPT ![r].phase = "errjson"]
            /\ announced' = <<>>
            /\ announcedOver' = <<>>
            /\ NoCopyNoBulk
            /\ UNCHANGED <<aiRequestController, aiControls, aiStatus>>
       [] outcome = "networkError" ->
            CatchError(r, "Could not reach the backend.")
  /\ UNCHANGED <<pageVars, microtasks>>

\* response.json() of a non-2xx response settles: a body with an error field,
\* or a body without one or that does not parse.
errorBodySettles(r, hasError) ==
  /\ microtasks = <<>>
  /\ r \in 1..Len(requests)
  /\ requests[r].phase = "errjson"
  /\ ~requests[r].aborted
  /\ CatchError(r, IF hasError THEN "errorBody.error"
                   ELSE "Request failed with status")
  /\ UNCHANGED <<pageVars, microtasks>>

\* response.json() of a 2xx response rejects: the body is not JSON.
bodyUnparseable(r) ==
  /\ microtasks = <<>>
  /\ r \in 1..Len(requests)
  /\ requests[r].phase = "json"
  /\ ~requests[r].aborted
  /\ CatchError(r, "SyntaxError message")
  /\ UNCHANGED <<pageVars, microtasks>>

\* response.json() of a 2xx response resolves with a payload whose items
\* field is `items`; the rest of the try block runs.
bodySettles(r, items) ==
  /\ microtasks = <<>>
  /\ r \in 1..Len(requests)
  /\ requests[r].phase = "json"
  /\ ~requests[r].aborted
  /\ LET usable == usableItems(items)
         uniqueItems == uniqueOf(usable)
         result == addItemsFromArray(
                     Page, JsArray([i \in 1..Len(uniqueItems) |->
                                      JsString(uniqueItems[i])]))
     IN IF Len(usable) = 0
        THEN /\ Leave(r, "Succeeded",
                      updateAiStatus("The assistant didn't return any items.",
                                     0, "error"),
                      <<Announcement("Assistant did not return any items.",
                                     <<>>, 0)>>)
             /\ announcedOver' = <<Page>>
             /\ UNCHANGED pageVars
        ELSE /\ SetPage(result.page)
             /\ announcedOver' = <<result.page>>
             /\ IF result.addedAny
                THEN Leave(r, "Succeeded",
                           updateAiStatus("Added N item(s) from the assistant.",
                                          Len(uniqueItems), "success"),
                           <<Announcement("Assistant added N item(s) to the set.",
                                          <<>>, Len(uniqueItems))>>)
                ELSE Leave(r, "Succeeded",
                           updateAiStatus(
                             "All assistant suggestions were already part of your set.",
                             0, "info"),
                           <<Announcement("Assistant returned only existing values.",
                                          <<>>, 0)>>)
  /\ UNCHANGED microtasks

Next ==
  \/ \E value \in SingleInputs : singleFormSubmit(value)
  \/ \E raw \in BulkInputs : bulkFormSubmit(raw)
  \/ \E i \in 1..Len(chipList) : chipRemoveClick(i)
  \/ clearButtonClick
  \/ \E resolves \in BOOLEAN : copyButtonClick(resolves)
  \/ \E prompt \in AiPrompts : aiFormSubmit(prompt)
  \/ aiCancelClick
  \/ resumeAborted
  \/ \E r \in 1..Len(requests) :
       \E outcome \in {"ok", "notOk", "networkError"} : fetchSettles(r, outcome)
  \/ \E r \in 1..Len(requests) : \E hasError \in BOOLEAN : errorBodySettles(r, hasError)
  \/ \E r \in 1..Len(requests) : bodyUnparseable(r)
  \/ \E r \in 1..Len(requests) : \E items \in PayloadItems : bodySettles(r, items)

Spec == Init /\ [][Next]_vars

(***************************************************************************)
(* The normalizer applied on its own                                       *)
(***************************************************************************)
\* Longest string handed to the normalizer.
MaxStrLen == 5

\* How many times in a row the normalizer is applied to its own result.
MaxApply == 2

\* A letter and two different whitespace characters.
NormalizeAlphabet == {"a", " ", "\t"}

NormalizeInputs == UNION {[1..k -> NormalizeAlphabet] : k \in 0..MaxStrLen}

NormalizeInit ==
  /\ BrowserInit
  /\ ServerIdle
  /\ normalizeArg \in NormalizeInputs
  /\ normalizeResults = <<>>

\* sanitizeValue applied to the argument, then to its own previous result.
normalizeApply ==
  /\ Len(normalizeResults) < MaxApply
  /\ normalizeResults' =
       Append(normalizeResults,
              sanitizeValue(IF normalizeResults = <<>> THEN normalizeArg
                            ELSE normalizeResults[Len(normalizeResults)]))
  /\ UNCHANGED <<pageVars, aiVars, announced, announcedOver, clipboardWrites,
                 bulkInput, normalizeArg, serverRequest, serverResponse>>

NormalizeSpec == NormalizeInit /\ [][normalizeApply]_vars

(***************************************************************************)
(* The backend: POST /api/build-set                                        *)
(***************************************************************************)
JsUndefined == [typeof |-> "undefined", value |-> <<>>]

\* String.prototype.toLowerCase on one character.
toLowerCaseChar(c) ==
  CASE c = "A" -> "a"
    [] c = "B" -> "b"
    [] c = "C" -> "c"
    [] c = "D" -> "d"
    [] c = "E" -> "e"
    [] c = "F" -> "f"
    [] c = "G" -> "g"
    [] c = "H" -> "h"
    [] c = "I" -> "i"
    [] c = "J" -> "j"
    [] c = "K" -> "k"
    [] c = "L" -> "l"
    [] c = "M" -> "m"
    [] c = "N" -> "n"
    [] c = "O" -> "o"
    [] c = "P" -> "p"
    [] c = "Q" -> "q"
    [] c = "R" -> "r"
    [] c = "S" -> "s"
    [] c = "T" -> "t"
    [] c = "U" -> "u"
    [] c = "V" -> "v"
    [] c = "W" -> "w"
    [] c = "X" -> "x"
    [] c = "Y" -> "y"
    [] c = "Z" -> "z"
    [] OTHER -> c

toLowerCase(s) == [i \in 1..Len(s) |-> toLowerCaseChar(s[i])]

\* String.prototype.includes
includes(haystack, needle) ==
  \E i \in 0..(Len(haystack) - Len(needle)) :
    SubSeq(haystack, i + 1, i + Len(needle)) = needle

\* PRESET_SETS, in the order of Object.entries.
PRESET_SETS ==
  << [keyword |-> <<"p", "p", "e">>,
       items |-> <<
         JsString(<<"N", "9", "5", " ", "r", "e", "s", "p", "i", "r", "a", "t", "o", "r">>),
         JsString(<<"F", "a", "c", "e", " ", "s", "h", "i", "e", "l", "d">>),
         JsString(<<"D", "i", "s", "p", "o", "s", "a", "b", "l", "e", " ", "g", "l", "o", "v", "e", "s">>),
         JsString(<<"P", "r", "o", "t", "e", "c", "t", "i", "v", "e", " ", "g", "o", "w", "n">>),
         JsString(<<"M", "e", "d", "i", "c", "a", "l", " ", "g", "o", "g", "g", "l", "e", "s">>),
         JsString(<<"H", "a", "n", "d", " ", "s", "a", "n", "i", "t", "i", "z", "e", "r">>)>>],
     [keyword |-> <<"f", "i", "r", "s", "t", " ", "a", "i", "d">>,
       items |-> <<
         JsString(<<"A", "d", "h", "e", "s", "i", "v", "e", " ", "b", "a", "n", "d", "a", "g", "e", "s">>),
         JsString(<<"S", "t", "e", "r", "i", "l", "e", " ", "g", "a", "u", "z", "e", " ", "p", "a", "d", "s">>),
         JsString(<<"M", "e", "d", "i", "c", "a", "l", " ", "t", "a", "p", "e">>),
         JsString(<<"A", "n", "t", "i", "s", "e", "p", "t", "i", "c", " ", "w", "i", "p", "e", "s">>),
         JsString(<<"E", "l", "a", "s", "t", "i", "c", " ", "b", "a", "n", "d", "a", "g", "e">>),
         JsString(<<"T", "w", "e", "e", "z", "e", "r", "s">>)>>],
     [keyword |-> <<"c", "a", "m", "p", "i", "n", "g">>,
       items |-> <<
         JsString(<<"T", "e", "n", "t">>),
         JsString(<<"S", "l", "e", "e", "p", "i", "n", "g", " ", "b", "a", "g">>),
         JsString(<<"C", "a", "m", "p", "i", "n", "g", " ", "s", "t", "o", "v", "e">>),
         JsString(<<"W", "a", "t", "e", "r", " ", "p", "u", "r", "i", "f", "i", "e", "r">>),
         JsString(<<"H", "e", "a", "d", "l", "a", "m", "p">>),
         JsString(<<"F", "i", "r", "s", "t", " ", "a", "i", "d", " ", "k", "i", "t">>)>>] >>

\* The fixed list returned when the prompt yields nothing.
PlaceholderItems ==
  << JsString(<<"e", "x", "a", "m", "p", "l", "e", " ", "i", "t", "e", "m">>),
     JsString(<<"a", "n", "o", "t", "h", "e", "r", " ", "e", "x", "a", "m", "p", "l", "e", " ", "i", "t", "e", "m">>),
     JsString(<<"r", "e", "f", "i", "n", "e", " ", "y", "o", "u", "r", " ", "p", "r", "o", "m", "p", "t", " ", "f", "o", "r", " ", "b", "e", "t", "t", "e", "r", " ", "r", "e", "s", "u", "l", "t", "s">>) >>

\* A plausible slip: items are trimmed and filtered but not deduplicated.
normalizeItems_NoDedup(items) ==
  LET trimmed == [i \in 1..Len(items) |->
                    IF items[i].typeof = "string" THEN trim(items[i].value)
                    ELSE <<>>]
  IN selectSeq(trimmed, Range(trimmed) \ {<<>>})

\* normalizeItems: non-strings become "", all are trimmed, empties dropped,
\* duplicates removed by a Set.
normalizeItems(items) ==
  LET trimmed == [i \in 1..Len(items) |->
                    IF items[i].typeof = "string" THEN trim(items[i].value)
                    ELSE <<>>]
  IN uniqueOf(selectSeq(trimmed, Range(trimmed) \ {<<>>}))

\* The first preset whose keyword the lower-cased prompt includes (0 if none).
RECURSIVE firstPreset(_, _)
firstPreset(normalizedPrompt, k) ==
  IF k > Len(PRESET_SETS) THEN 0
  ELSE IF includes(normalizedPrompt, PRESET_SETS[k].keyword) THEN k
  ELSE firstPreset(normalizedPrompt, k + 1)

buildMockItems(prompt) ==
  LET preset == firstPreset(toLowerCase(prompt), 1)
      segments == split(prompt)
      trimmed == [i \in 1..Len(segments) |-> trim(segments[i])]
      derived == selectSeq(trimmed, Range(trimmed) \ {<<>>})
  IN IF preset # 0 THEN normalizeItems(PRESET_SETS[preset].items)
     ELSE IF Len(derived) > 0
          THEN normalizeItems([i \in 1..Len(derived) |-> JsString(derived[i])])
          ELSE normalizeItems(PlaceholderItems)

ServerItems(items) ==
  [status |-> 200, hasItems |-> TRUE, items |-> items, error |-> ""]
ServerError(status, message) ==
  [status |-> status, hasItems |-> FALSE, items |-> <<>>, error |-> message]

\* fetchFromOpenAI followed by the route's res.json / catch: the reply of the
\* chat API decides between the items and a thrown error.
fetchFromOpenAI(llm) ==
  CASE llm.kind = "notOk" ->
         ServerError(500, IF llm.status = 401
                          THEN "The language model rejected the request."
                          ELSE "Language model request failed with status")
    [] llm.kind = "noContent" ->
         ServerError(500, "Language model returned an empty response.")
    [] llm.kind = "invalidJson" ->
         ServerError(500, "Language model response was not valid JSON.")
    [] llm.kind = "parsed" ->
         LET items == IF llm.items.isArray THEN llm.items.elems ELSE <<>>
         IN IF Len(items) = 0
            THEN ServerError(500, "Language model response did not include any items.")
            ELSE ServerItems(normalizeItems(items))

\* The route handler: the response to a request.
buildSet(request) ==
  LET prompt == IF request.prompt.typeof = "string"
                THEN trim(request.prompt.value) ELSE <<>>
  IN IF prompt = <<>>
     THEN ServerError(400, "A prompt describing the set is required.")
     ELSE IF request.hasKey THEN fetchFromOpenAI(request.llm)
     ELSE ServerItems(buildMockItems(prompt))

\* req.body.prompt of the requests sent to the backend.
ServerPrompts ==
  { JsUndefined, JsNumber,
    JsString(<<>>),
    JsString(<<" ", " ">>),
    JsString(<<"p", "p", "e">>),
    JsString(<<"M", "y", " ", "P", "P", "E", " ", "k", "i", "t">>),
    JsString(<<"f", "i", "r", "s", "t", " ", "a", "i", "d">>),
    JsString(<<"C", "a", "m", "p", "i", "n", "g", ",", " ", "t", "e", "n", "t">>),
    JsString(<<"a", ",", " ", "b">>),
    JsString(<<"a", ",", "a", ",", " ", "a", " ">>),
    JsString(<<",", "\n">>),
    JsString(<<"b">>) }

\* What the chat API answers when the backend forwards a prompt to it.
LlmReplies ==
  { [kind |-> "notOk", status |-> 401, items |-> JsNotArray],
    [kind |-> "notOk", status |-> 500, items |-> JsNotArray],
    [kind |-> "noContent", status |-> 200, items |-> JsNotArray],
    [kind |-> "invalidJson", status |-> 200, items |-> JsNotArray],
    [kind |-> "parsed", status |-> 200, items |-> JsNotArray],
    [kind |-> "parsed", status |-> 200, items |-> JsArray(<<>>)],
    [kind |-> "parsed", status |-> 200,
     items |-> JsArray(<<JsString(<<"a">>), JsString(<<" ", "a">>), JsString(<<"b">>)>>)],
    [kind |-> "parsed", status |-> 200,
     items |-> JsArray(<<JsNumber, JsString(<<" ">>)>>)],
    [kind |-> "parsed", status |-> 200,
     items |-> JsArray(<<JsString(<<"b">>), JsNull, JsString(<<"a", " ", "b", " ">>)>>)] }

LlmUnused == [kind |-> "unused", status |-> 0, items |-> JsNotArray]

ServerRequests ==
  {[kind |-> "post", prompt |-> prompt, hasKey |-> FALSE, llm |-> LlmUnused] :
     prompt \in ServerPrompts}
  \cup
  {[kind |-> "post", prompt |-> prompt, hasKey |-> TRUE, llm |-> llm] :
     prompt \in ServerPrompts, llm \in LlmReplies}

\* A request reaches the route.
serverReceives(request) ==
  /\ serverRequest = NoServerRequest \/ serverResponse # NoServerResponse
  /\ serverRequest' = request
  /\ serverResponse' = NoServerResponse
  /\ UNCHANGED <<pageVars, aiVars, announced, announcedOver, clipboardWrites,
                 bulkInput, normalizeArg, normalizeResults>>

\* The route answers it.
serverResponds ==
  /\ serverRequest # NoServerRequest
  /\ serverResponse = NoServerResponse
  /\ serverResponse' = buildSet(serverRequest)
  /\ UNCHANGED <<pageVars, aiVars, announced, announcedOver, clipboardWrites,
                 bulkInput, normalizeArg, normalizeResults, serverRequest>>

ServerNext ==
  \/ \E request \in ServerRequests : serverReceives(request)
  \/ serverResponds

ServerSpec == Init /\ [][ServerNext]_vars

\* The provider call of every request eventually settles, and a rejected
\* await is always resumed.
ProviderSettles(r) ==
  \/ \E outcome \in {"ok", "notOk", "networkError"} : fetchSettles(r, outcome)
  \/ \E hasError \in BOOLEAN : errorBodySettles(r, hasError)
  \/ bodyUnparseable(r)
  \/ \E items \in PayloadItems : bodySettles(r, items)

\* The steps of a run in which at most MaxSetReq requests are issued; the set
\* handlers are not limited.
SetNext == Next /\ Len(requests') <= MaxSetReq

SetSpec == Init /\ [][SetNext]_vars

\* The steps of a run in which at most MaxFairReq requests are issued.
FairNext == Next /\ Len(requests') <= MaxFairReq

FairSpec ==
  /\ Init
  /\ [][FairNext]_vars
  /\ WF_vars(resumeAborted)
  /\ \A r \in 1..MaxFairReq : WF_vars(ProviderSettles(r))

(***************************************************************************)
(* Properties                                                              *)
(***************************************************************************)
Issued == 1..Len(requests)
SomePending == \E r \in Issued : Pending(r)
Idle == aiControls = setAiLoading(FALSE) /\ aiRequestController = 0

\* C1: in every reachable state at most one suggestion request is in flight
\* (issued and neither settled nor aborted).
C1_AtMostOneInFlight ==
  Cardinality({r \in Issued : InFlight(r)}) <= 1

\* C2: a request superseded by a later submit ends Cancelled silently: the
\* step in which it ends writes no status text and announces nothing.
C2_SupersededEndsSilently ==
  [][\A r \in Issued :
       (r < Len(requests) /\ requests[r].aborted /\ Pending(r)
        /\ requests'[r].phase \notin {"fetch", "json", "errjson"})
       => (/\ requests'[r].phase = "Cancelled"
           /\ announced' = <<>>
           /\ aiStatus' = aiStatus)]_vars

\* C3: a click on the cancel control while a request is in flight signals
\* abort to that request, and a request signalled to abort ends Cancelled.
C3_CancelAbortsInFlight ==
  /\ [][aiCancelClick =>
          \A r \in Issued : InFlight(r) => requests'[r].aborted]_vars
  /\ [](\A r \in Issued :
          (requests[r].aborted /\ ~Pending(r)) => requests[r].phase = "Cancelled")

\* C4: the prompt input and submit control are disabled and the cancel control
\* shown exactly when a request is outstanding, and an outstanding request
\* always has a handle.
C4_LoadingMatchesLifecycle ==
  /\ aiControls = setAiLoading(SomePending)
  /\ SomePending => aiRequestController # 0

\* C5: every request that enters Pending eventually leaves it, and whenever no
\* request is outstanding the lifecycle is Idle (controls enabled, cancel
\* hidden, handle null).
C5_PendingEndsInIdle ==
  /\ \A r \in 1..MaxFairReq :
       (r <= Len(requests) /\ Pending(r)) ~> (r <= Len(requests) /\ ~Pending(r))
  /\ [](~SomePending => Idle)

\* C5 witness: a superseded request has ended Cancelled, its successor has
\* ended too, and the lifecycle is Idle.
C5_Witness ==
  /\ Len(requests) = 2
  /\ ~SomePending
  /\ requests[1].phase = "Cancelled"
  /\ requests[2].phase \in {"Failed", "Succeeded"}
  /\ Idle

DescribeFirst ==
  <<Announcement("Describe what you need before asking the assistant.", <<>>, 0)>>

\* C6: a submit whose prompt is empty after normalization announces "describe
\* what you need" and changes nothing else: set, rendered outputs, handle,
\* requests, controls and status line are unchanged.
C6_EmptyPromptChangesNothing ==
  [][announced' = DescribeFirst => UNCHANGED <<pageVars, aiVars>>]_vars

\* C6 witness: the empty prompt was submitted while a request is in flight,
\* which is still in flight with the loading controls shown.
C6_Witness ==
  /\ announced = DescribeFirst
  /\ \E r \in Issued : InFlight(r) /\ aiRequestController = r
  /\ aiControls = setAiLoading(TRUE)

\* C7: when a provider response adds at least one value, the N of the
\* "Added N item(s)" status and announcement is the number of values that
\* response added to the set.
C7_ReportedCountIsAddedCount ==
  [][\A r \in Issued :
       (requests[r].phase = "json" /\ requests'[r].phase = "Succeeded"
        /\ aiStatus'.state = "success")
       => (/\ aiStatus'.n = Len(setItems') - Len(setItems)
           /\ announced'[1].n = Len(setItems') - Len(setItems))]_vars

\* Normal form, stated on the characters: non-empty, no whitespace at either
\* end, no two adjacent whitespace characters.
IsNormalForm(v) ==
  /\ v # <<>>
  /\ v[1] \notin Whitespace
  /\ v[Len(v)] \notin Whitespace
  /\ \A i \in 1..(Len(v) - 1) : ~(v[i] \in Whitespace /\ v[i + 1] \in Whitespace)

\* C8: every stored value is non-empty and in normal form, and no two stored
\* values are equal.
C8_StoredValuesNormalAndDistinct ==
  /\ \A i \in 1..Len(setItems) : IsNormalForm(setItems[i])
  /\ \A i, j \in 1..Len(setItems) : i # j => setItems[i] # setItems[j]

\* C8 witness: the set holds several values, one of them with an internal
\* space, after suggestions were ingested.
C8_Witness ==
  /\ Len(setItems) = 3
  /\ <<"a", " ", "b">> \in Range(setItems)
  /\ \E r \in Issued : requests[r].phase = "Succeeded"

\* The literal built from the right: entries separated by comma and space.
RECURSIVE ExpectedEntries(_)
ExpectedEntries(items) ==
  IF Len(items) = 1 THEN <<"\"">> \o items[1] \o <<"\"">>
  ELSE ExpectedEntries(SubSeq(items, 1, Len(items) - 1))
         \o <<",", " ", "\"">> \o items[Len(items)] \o <<"\"">>

\* C9: the chip list holds exactly one chip per stored value in collation
\* order, the empty-state indicator is shown iff the set is empty, and the
\* literal is empty for the empty set and otherwise the braces-quotes-commas
\* list of the stored values in insertion order.
C9_OutputsInSync ==
  /\ Len(chipList) = Len(setItems)
  /\ Range(chipList) = Range(setItems)
  /\ \A i, j \in 1..Len(chipList) :
       i < j => CollatorCompare(chipList[i], chipList[j]) < 0
  /\ emptyStateHidden <=> (setItems # <<>>)
  /\ output = IF setItems = <<>> THEN <<>>
              ELSE <<"{", " ">> \o ExpectedEntries(setItems) \o <<" ", "}">>

\* C9 witness: a chip was just removed, and the remaining values' insertion
\* order differs from their collation order.
C9_Witness ==
  /\ Len(announced) = 1
  /\ announced[1].text = "removed from the set."
  /\ Len(setItems) = 2
  /\ chipList # setItems

\* C10: from every reachable set, add(v) twice in succession grows the set by
\* at most one value; the second call returns false, runs no render and leaves
\* set, chip list and literal as the first call left them.
C10_SecondAddIsNoOp ==
  \A v \in SingleInputs :
    LET first == addValue(Page, v)
        second == addValue(first.page, v)
    IN /\ ~second.added
       /\ ~second.rendered
       /\ second.page = first.page
       /\ Len(second.page.setItems) <= Len(setItems) + 1

\* C10 witness: a single submit has just been refused on a non-empty set.
C10_Witness ==
  /\ announced = <<Announcement("Value is empty or already exists.", <<>>, 0)>>
  /\ Len(setItems) >= 2

\* Candidate lists handed to the ingestor: the payloads, and the list
\* ["a", "a", " a ", "b", 42, null].
IngestCandidates ==
  PayloadItems \cup
  { JsArray(<<JsString(<<"a">>), JsString(<<"a">>), JsString(<<" ", "a", " ">>),
              JsString(<<"b">>), JsNumber, JsNull>>) }

\* The non-empty normalized forms of the string elements of a candidate list.
NormalizedStringsOf(c) ==
  {sanitizeValue(c.elems[i].value) :
     i \in {j \in 1..Len(c.elems) : c.elems[j].typeof = "string"}} \ {<<>>}

\* C11: from every reachable set S, ingest(c) leaves S united with the
\* non-empty normalized forms of the string elements of c and returns true iff
\* the set changed; a c that is not a sequence returns false and changes
\* nothing; ["a","a"," a ","b",42,null] into the empty set yields {"a","b"}.
C11_IngestIsUnionOfNormalized ==
  /\ \A c \in IngestCandidates :
       LET result == addItemsFromArray(Page, c) IN
       IF ~c.isArray
       THEN ~result.addedAny /\ result.page = Page
       ELSE /\ Range(result.page.setItems) =
                 Range(setItems) \cup NormalizedStringsOf(c)
            /\ result.addedAny <=> (result.page.setItems # setItems)
  /\ setItems = <<>> =>
       addItemsFromArray(
         Page, JsArray(<<JsString(<<"a">>), JsString(<<"a">>),
                         JsString(<<" ", "a", " ">>), JsString(<<"b">>),
                         JsNumber, JsNull>>)).page.setItems = <<(<<"a">>), (<<"b">>)>>

\* C11 witness: a provider response has just been ingested into a set that
\* already held a value, and added to it.
C11_Witness ==
  /\ Len(announced) = 1
  /\ announced[1].text = "Assistant added N item(s) to the set."
  /\ Len(setItems) = 3

NoNewValues == <<Announcement("No new values were added.", <<>>, 0)>>

\* C12: a bulk submit announces "No new values were added" iff no segment of
\* the batch changed the set's membership; it announces nothing else, and the
\* bulk field is empty afterwards either way.
C12_NoNewValuesIffNothingAdded ==
  [][\A raw \in BulkInputs :
       bulkFormSubmit(raw) =>
         /\ (announced' = NoNewValues) <=> (Range(setItems') = Range(setItems))
         /\ announced' \in {<<>>, NoNewValues}
         /\ bulkInput' = <<>>]_vars

\* C12 witness: a batch whose segments were all already stored has been
\* refused, and the bulk field is empty.
C12_Witness ==
  /\ announced = NoNewValues
  /\ Len(setItems) >= 2
  /\ bulkInput = <<>>

\* Values the remove operation is tried with: stored or not.
RemoveCandidates == {sanitizeValue(v) : v \in SingleInputs} \cup {<<"b", " ", "a">>}

\* C13: from every reachable set, removing a value that is not stored changes
\* nothing (set, chip list, literal), runs no render and announces nothing;
\* removing a stored value deletes exactly that value and keeps the others in
\* place.
C13_RemoveAbsentIsNoOp ==
  \A v \in RemoveCandidates :
    LET result == removeValue(Page, v) IN
    IF v \notin Range(setItems)
    THEN result.page = Page /\ result.announced = <<>> /\ ~result.rendered
    ELSE result.page.setItems = selectSeq(setItems, Range(setItems) \ {v})

\* C13 witness: a stored value has just been removed and another one is still
\* stored.
C13_Witness ==
  /\ Len(announced) = 1
  /\ announced[1].text = "removed from the set."
  /\ announced[1].value \notin Range(setItems)
  /\ Len(setItems) = 1

CopyTexts ==
  {"Nothing to copy. The set is empty.", "Set literal copied to clipboard.",
   "Copy failed. Your browser may block clipboard access."}

\* C14: a click on copy never changes the set, the chip list, the literal or
\* the request lifecycle; with an empty set nothing is offered to the clipboard
\* and "nothing to copy" is announced; otherwise exactly the current literal is
\* offered and the success or the failure of the write is announced.
C14_CopyChangesNothing ==
  [][(Len(announced') = 1 /\ announced'[1].text \in CopyTexts) =>
       /\ UNCHANGED <<pageVars, aiVars, bulkInput>>
       /\ IF setItems = <<>>
          THEN /\ clipboardWrites' = <<>>
               /\ announced'[1].text = "Nothing to copy. The set is empty."
          ELSE /\ clipboardWrites' = <<output>>
               /\ announced'[1].text # "Nothing to copy. The set is empty."]_vars

\* C14 witness: the clipboard refused the literal of a set of several values.
C14_Witness ==
  /\ Len(announced) = 1
  /\ announced[1].text = "Copy failed. Your browser may block clipboard access."
  /\ clipboardWrites = <<output>>
  /\ Len(setItems) >= 2

\* C15: a request ended by the cancellation signal is reported as "request
\* cancelled" with info severity, never with error severity; a request that
\* fails otherwise is reported with error severity.
C15_CancelledIsNotAFailure ==
  [][\A r \in Issued :
       (Pending(r) /\ requests'[r].phase \notin {"fetch", "json", "errjson"}) =>
         IF requests[r].aborted
         THEN /\ aiStatus'.state = "info"
              /\ aiStatus'.message = "Assistant request cancelled."
         ELSE requests'[r].phase = "Failed" => aiStatus'.state = "error"]_vars

\* C16: applying the normalizer to its own result gives that result again.
C16_NormalizeIdempotent ==
  \A i \in 2..Len(normalizeResults) : normalizeResults[i] = normalizeResults[i - 1]

\* C16 witness: a string with whitespace at an end and a run of two different
\* whitespace characters inside has been normalized twice.
C16_Witness ==
  /\ Len(normalizeResults) = 2
  /\ normalizeArg = <<"a", " ", "\t", "a", " ">>
  /\ normalizeResults[1] = <<"a", " ", "a">>

\* C17: a request whose prompt is missing, not a string or empty after trimming
\* is answered 400 with an error message and no items; the items of every 200
\* response are non-empty strings without whitespace at either end, no two of
\* them equal, with or without a language model.
C17_BackendRejectsAndDeduplicates ==
  serverResponse # NoServerResponse =>
    /\ (serverRequest.prompt.typeof # "string"
        \/ \A i \in 1..Len(serverRequest.prompt.value) :
             serverRequest.prompt.value[i] \in Whitespace)
       => (/\ serverResponse.status = 400
           /\ serverResponse.error # ""
           /\ ~serverResponse.hasItems)
    /\ serverResponse.status = 200 =>
         /\ serverResponse.hasItems
         /\ \A i \in 1..Len(serverResponse.items) :
              LET item == serverResponse.items[i] IN
              /\ item # <<>>
              /\ item[1] \notin Whitespace
              /\ item[Len(item)] \notin Whitespace
         /\ \A i, j \in 1..Len(serverResponse.items) :
              i # j => serverResponse.items[i] # serverResponse.items[j]

\* C17 witness: the fallback answered a prompt that repeats a segment.
C17_Witness ==
  /\ serverRequest # NoServerRequest
  /\ ~serverRequest.hasKey
  /\ serverRequest.prompt = JsString(<<"a", ",", "a", ",", " ", "a", " ">>)
  /\ serverResponse.status = 200
  /\ serverResponse.items = <<(<<"a">>)>>

\* C18: every announcement of the latest handler run was made over the chip
\* list and literal of the set as that run left it: render came first.
C18_RenderBeforeAnnounce ==
  /\ Len(announcedOver) = Len(announced)
  /\ \A i \in 1..Len(announcedOver) :
       /\ announcedOver[i].setItems = setItems
       /\ Len(announcedOver[i].chipList) = Len(setItems)
       /\ Range(announcedOver[i].chipList) = Range(setItems)
       /\ announcedOver[i].output =
            IF setItems = <<>> THEN <<>> ELSE setLiteral(setItems)

\* C18 witness: the removal of a value has been announced with other values
\* still stored.
C18_Witness ==
  /\ Len(announced) = 1
  /\ announced[1].text = "removed from the set."
  /\ Len(announcedOver[1].chipList) = 2

\* C19: whenever a request has a successor, it has been signalled to abort or
\* has ended: no later request is in flight beside an unsignalled earlier one.
C19_AbortBeforeSupersede ==
  \A r \in Issued : (r < Len(requests) /\ Pending(r)) => requests[r].aborted

\* C20: the step in which a request signalled to abort ends, and the step in
\* which a request ends Cancelled or Failed, leave the set and its rendered
\* outputs unchanged.
C20_AbortedNeverAdds ==
  [][\A r \in Issued :
       (/\ Pending(r)
        /\ requests'[r].phase \notin {"fetch", "json", "errjson"}
        /\ (requests[r].aborted \/ requests'[r].phase \in {"Cancelled", "Failed"}))
       => UNCHANGED pageVars]_vars

\* C20 witness: a request signalled to abort has just ended Cancelled, the
\* set holding what other handlers stored.
C20_Witness ==
  /\ Len(announced) = 1
  /\ announced[1].text = "Assistant request cancelled."
  /\ \E r \in Issued : requests[r].phase = "Cancelled" /\ requests[r].aborted
  /\ Len(setItems) >= 1

\* C21: every 200 response of the backend carries at least one item, with or
\* without a language model.
C21_SuccessHasItems ==
  serverResponse.status = 200 =>
    serverResponse.hasItems /\ Len(serverResponse.items) > 0

====
